---- MODULE Spec2Model ----
(***************************************************************************)
(* Model of the RagAgent repository: the Streamlit application app.py      *)
(* (knowledge-base sidebar and chat turn) and the directory ingestion      *)
(* script ingest.py, both working on one pgvector table.                   *)
(*                                                                         *)
(* Strings are sequences of code points; a displayed text is a sequence    *)
(* of pieces (streamed fragments, the cursor mark, the sources header, one *)
(* list item per cited file).                                              *)
(***************************************************************************)
EXTENDS Integers, Sequences, FiniteSets, TLC

\* ------------------------------------------------------------------ bounds
MaxIds == 1         \* document uuids SimpleDirectoryReader hands out in a run
MaxDirDocs == 1     \* most files in an ingested directory
MaxTurns == 2       \* user inputs per chat session
MaxFrags == 2       \* fragments per response stream
TopK == 2           \* chunks a query retrieves at most

\* ------------------------------------------------------------- vocabulary
\* File names as code-point sequences: "b" and "ab".
FileNames == {<<2>>, <<1, 2>>}
\* Document texts, identified by their length in chunks: a text that fits one
\* chunk and a text that is split in two.
Texts == {1, 2}
\* Text fragments the language model streams.
Fragments == {<<7>>, <<8>>}
\* The browser sessions of the one Streamlit process.
Sessions == {"s1", "s2"}
\* The session whose chat is followed.
ChatSession == "s1"
NoName == <<>>

VARIABLES
    store,          \* rows of table data_agentic_rag_documents
    nextId,         \* next unused document uuid
    cache,          \* st.cache_data entry of get_stored_files
    stored_files,   \* stored_files of the latest script run
    fetched,        \* how get_stored_files ended in the latest step
    pending,        \* per session: file_to_manage of a Delete File run in progress
    report,         \* what the sidebar reports in the latest step
    ingestResult,   \* what the caller of ingest_data got in the latest step
    op,             \* the handler of the latest step
    messages,       \* st.session_state.messages of ChatSession
    phase,          \* "idle" or "awaiting_answer"
    outcome,        \* how the latest chat turn ended
    source_nodes,   \* streaming_response.source_nodes
    received,       \* fragments response_gen has yielded, in arrival order
    full_response,  \* local full_response
    placeholder,    \* what message_placeholder shows
    final_output    \* local final_output

chatVars == <<messages, phase, outcome, source_nodes, received, full_response,
              placeholder, final_output>>
vars == <<store, nextId, cache, stored_files, fetched, pending, report, ingestResult,
          op, messages, phase, outcome, source_nodes, received, full_response,
          placeholder, final_output>>

\* ---------------------------------------------------------------- helpers
Min(a, b) == IF a <= b THEN a ELSE b

Range(s) == {s[i] : i \in 1..Len(s)}

\* Python's str comparison: lexicographic on code points, a proper prefix first.
RECURSIVE StrLess(_, _)
StrLess(a, b) ==
    IF b = <<>> THEN FALSE
    ELSE IF a = <<>> THEN TRUE
    ELSE IF Head(a) # Head(b) THEN Head(a) < Head(b)
    ELSE StrLess(Tail(a), Tail(b))

\* sorted(list(source_files)).
RECURSIVE Sorted(_)
Sorted(S) ==
    IF S = {} THEN <<>>
    ELSE LET m == CHOOSE x \in S : \A y \in S \ {x} : StrLess(x, y)
         IN <<m>> \o Sorted(S \ {m})

\* Every order in which the elements of a set can come.
Orderings(S) ==
    {s \in [1..Cardinality(S) -> S] : \A i, j \in 1..Cardinality(S) : i # j => s[i] # s[j]}

\* ------------------------------------------------------------------ store
\* ref_doc_id of a document built by the upload handler: doc_id=uploaded_file.name.
UploadDocId(name) == [name |-> name, uuid |-> 0]
\* ref_doc_id of a document SimpleDirectoryReader loads: a fresh uuid.
ReaderDocId(id) == [name |-> NoName, uuid |-> id]

\* The rows written for one document, one per chunk. A row is known by its
\* document, text and position: rows equal in all of these are kept once.
Chunks(docId, name, text) ==
    {[ref_doc_id |-> docId, file_name |-> name, text |-> text, idx |-> i] : i \in 1..text}

\* Rows that carry the identifier `name` in their file_name metadata.
RowsNamed(rows, name) == {r \in rows : r.file_name = name}

\* SELECT DISTINCT metadata_->>'file_name' ... IS NOT NULL, then `if row and row[0]`.
DistinctFileNames(rows) ==
    {r.file_name : r \in {x \in rows : "file_name" \in DOMAIN x /\ x.file_name # <<>>}}

\* The same query without DISTINCT: one entry per row.
QueryWithoutDistinct(rows) ==
    {[i \in 1..Cardinality(rows) |-> o[i].file_name] : o \in Orderings(rows)}

\* What c.fetchall() can give get_stored_files: the query has no ORDER BY, so the
\* distinct names come in an order the database chooses.
StoredFilesQuery(rows) == Orderings(DistinctFileNames(rows))

NoCache == [valid |-> FALSE, value |-> <<>>]
NoReport == [kind |-> "none", target |-> NoName, matched |-> 0, named |-> 0, removed |-> {}]
NoIngest == [result |-> "none", returned |-> "None", raised |-> FALSE,
             exit_code |-> 0, wrote |-> 0]

\* get_stored_files behind st.cache_data(ttl=10), called with cache c0 on store
\* `rows`: it returns a cached value, or the query's result, or [] on an error,
\* and the value returned is cached.
GetStoredFiles(c0, rows) ==
    IF c0.valid
    THEN /\ stored_files' = c0.value
         /\ cache' = c0
         /\ fetched' = "cache"
    ELSE \/ \E lst \in StoredFilesQuery(rows) :
               /\ stored_files' = lst
               /\ cache' = [valid |-> TRUE, value |-> lst]
               /\ fetched' = "query"
         \/ /\ stored_files' = <<>>
            /\ cache' = [valid |-> TRUE, value |-> <<>>]
            /\ fetched' = "error"

Greeting == [role |-> "assistant", content |-> <<[k |-> "greeting", f |-> <<>>]>>]

Init ==
    /\ store = {}
    /\ nextId = 1
    /\ cache = NoCache
    /\ stored_files = <<>>
    /\ fetched = "none"
    /\ pending = [s \in Sessions |-> NoName]
    /\ report = NoReport
    /\ ingestResult = NoIngest
    /\ op = "start"
    /\ messages = <<Greeting>>
    /\ phase = "idle"
    /\ outcome = "none"
    /\ source_nodes = {}
    /\ received = <<>>
    /\ full_response = <<>>
    /\ placeholder = <<>>
    /\ final_output = <<>>

\* A session can start a script run when no run of it is in progress.
Idle(s) == pending[s] = NoName /\ (s = ChatSession => phase = "idle")

\* ------------------------------------------------------- app.py: sidebar
\* A script run with no button pressed and no prompt: the sidebar is redrawn.
Rerun(s) ==
    /\ Idle(s)
    /\ GetStoredFiles(cache, store)
    /\ op' = "Rerun"
    /\ report' = NoReport
    /\ ingestResult' = NoIngest
    /\ UNCHANGED <<store, nextId, pending>>
    /\ UNCHANGED chatVars

\* The ttl=10 of st.cache_data runs out.
CacheExpires ==
    /\ cache.valid
    /\ cache' = NoCache
    /\ op' = "CacheExpires"
    /\ fetched' = "none"
    /\ report' = NoReport
    /\ ingestResult' = NoIngest
    /\ UNCHANGED <<store, nextId, stored_files, pending>>
    /\ UNCHANGED chatVars

\* index.insert(document): the rows of the store after the upload.
InsertDocument(rows, name, text) ==
    rows \cup Chunks(UploadDocId(name), name, text)

\* The Add File button: insert, report, clear the cache, rerun; or report the error
\* and draw the rest of the page.
AddFile(s, name, text) ==
    /\ Idle(s)
    /\ \/ /\ store' = InsertDocument(store, name, text)
          /\ report' = [NoReport EXCEPT !.kind = "add_success", !.target = name]
          /\ GetStoredFiles(NoCache, store')
       \/ /\ UNCHANGED store
          /\ report' = [NoReport EXCEPT !.kind = "add_error", !.target = name]
          /\ GetStoredFiles(cache, store)
    /\ op' = "AddFile"
    /\ ingestResult' = NoIngest
    /\ UNCHANGED <<nextId, pending>>
    /\ UNCHANGED chatVars

\* A run with the Delete File button pressed, up to the call of delete_ref_doc:
\* the listing is fetched and file_to_manage is the selected entry of it.
DeleteBegin(s) ==
    /\ Idle(s)
    /\ GetStoredFiles(cache, store)
    /\ stored_files' # <<>>
    /\ \E file_to_manage \in Range(stored_files') :
          pending' = [pending EXCEPT ![s] = file_to_manage]
    /\ op' = "DeleteBegin"
    /\ report' = NoReport
    /\ ingestResult' = NoIngest
    /\ UNCHANGED <<store, nextId>>
    /\ UNCHANGED chatVars

\* Rows index.delete_ref_doc(file_to_manage) removes: PGVectorStore.delete takes
\* the rows whose ref_doc_id is the argument.
RowsOfRefDoc(rows, target) == {r \in rows : r.ref_doc_id = UploadDocId(target)}

\* Deleting every row of a document with the same text.
DeleteByText(rows, target) ==
    {r \in rows : \A d \in RowsOfRefDoc(rows, target) : r.text # d.text}

\* index.delete_ref_doc(file_to_manage, delete_from_docstore=True): the rows left.
DeleteRefDoc(rows, target) == rows \ RowsOfRefDoc(rows, target)

\* What the sidebar says after delete_ref_doc returned on store `rows` and left
\* `left`: always the success message. `matched`, `named` and `removed` record
\* what the store held at the call and what the call took.
DeleteReport(rows, target, left) ==
    [kind |-> "delete_success", target |-> target,
     matched |-> Cardinality(RowsOfRefDoc(rows, target)),
     named |-> Cardinality(RowsNamed(rows, target)),
     removed |-> rows \ left]

\* The rest of the Delete File run: delete, report, clear the cache, rerun; or
\* report the error.
DeleteFinish(s) ==
    /\ pending[s] # NoName
    /\ \/ /\ store' = DeleteRefDoc(store, pending[s])
          /\ report' = DeleteReport(store, pending[s], store')
          /\ GetStoredFiles(NoCache, store')
       \/ /\ UNCHANGED <<store, cache, stored_files>>
          /\ fetched' = "none"
          /\ report' = [NoReport EXCEPT !.kind = "delete_error", !.target = pending[s],
                                        !.named = Cardinality(RowsNamed(store, pending[s]))]
    /\ pending' = [pending EXCEPT ![s] = NoName]
    /\ op' = "DeleteFile"
    /\ ingestResult' = NoIngest
    /\ UNCHANGED nextId
    /\ UNCHANGED chatVars

\* ------------------------------------------------------------- ingest.py
\* What a data path can be.
Paths == {"missing", "not_a_directory", "directory"}
\* The files SimpleDirectoryReader finds (name and text), in reading order, in a
\* directory that holds files; nothing is read when the path is no directory.
DirDocs == [name : FileNames, text : Texts]
Directories == UNION {[1..n -> DirDocs] : n \in 1..MaxDirDocs}
Loaded(path, docs) == IF path = "directory" THEN docs ELSE <<>>

\* VectorStoreIndex.from_documents: the rows written for the documents, the
\* first of which gets uuid `first`.
RECURSIVE FromDocuments(_, _)
FromDocuments(docs, first) ==
    IF docs = <<>> THEN {}
    ELSE Chunks(ReaderDocId(first), Head(docs).name, Head(docs).text)
         \cup FromDocuments(Tail(docs), first + 1)

\* ingest_data(data_path): which way it ends.
IngestOutcome(path, docs, dbUp) ==
    IF path # "directory" THEN "invalid_path"
    ELSE IF docs = <<>> THEN "no_documents"
    ELSE IF ~dbUp THEN "db_unreachable"
    ELSE "ingested"

\* An ingestion that builds the index before it looks at the connection.
IngestWritesUnchecked(path, docs, dbUp, first) ==
    IF path = "directory" THEN FromDocuments(docs, first) ELSE {}

\* The rows ingest_data adds to the store.
IngestWrites(path, docs, dbUp, first) ==
    IF IngestOutcome(path, docs, dbUp) = "ingested" THEN FromDocuments(docs, first) ELSE {}

\* What the caller of ingest_data gets: every branch ends in a plain return (or
\* falls off the end), and __main__ ends after the call, so the exit status is 0.
IngestReturn(path, docs, dbUp) ==
    [result |-> IngestOutcome(path, docs, dbUp), returned |-> "None",
     raised |-> FALSE, exit_code |-> 0,
     wrote |-> Cardinality(IngestWrites(path, docs, dbUp, 1))]

\* One run of `python ingest.py <path>`.
IngestData(path, docs, dbUp) ==
    /\ IngestOutcome(path, Loaded(path, docs), dbUp) = "ingested"
          => nextId + Len(docs) - 1 <= MaxIds
    /\ store' = store \cup IngestWrites(path, Loaded(path, docs), dbUp, nextId)
    /\ nextId' = IF IngestOutcome(path, Loaded(path, docs), dbUp) = "ingested"
                 THEN nextId + Len(docs) ELSE nextId
    /\ ingestResult' = IngestReturn(path, Loaded(path, docs), dbUp)
    /\ op' = "ingest_data"
    /\ fetched' = "none"
    /\ report' = NoReport
    /\ UNCHANGED <<cache, stored_files, pending>>
    /\ UNCHANGED chatVars

\* -------------------------------------------------- app.py: chat turn
Cursor == [k |-> "cursor", f |-> <<>>]
SourcesHeader == [k |-> "sources", f |-> <<>>]
Item(filename) == [k |-> "item", f |-> filename]
Fragment(text) == [k |-> "frag", f |-> text]
UserEntry == [role |-> "user", content |-> <<[k |-> "prompt", f |-> <<>>]>>]

NumUser(msgs) == Cardinality({i \in 1..Len(msgs) : msgs[i].role = "user"})

\* What query_engine.query can retrieve: the TopK rows nearest to the question,
\* whichever they are.
Retrieve(rows) == {S \in SUBSET rows : Cardinality(S) = Min(TopK, Cardinality(rows))}

\* The same list from the largest name down.
RECURSIVE SortedDescending(_)
SortedDescending(S) ==
    IF S = {} THEN <<>>
    ELSE LET m == CHOOSE x \in S : \A y \in S \ {x} : StrLess(y, x)
         IN <<m>> \o SortedDescending(S \ {m})

\* source_files: the file_name of every retrieved node that has one.
SourceFiles(nodes) == {n.file_name : n \in {m \in nodes : "file_name" \in DOMAIN m}}

\* A citation block listing the names in descending order.
CitationsDescending(nodes) ==
    IF SourceFiles(nodes) = {} THEN <<>>
    ELSE <<SourcesHeader>> \o [i \in 1..Cardinality(SourceFiles(nodes)) |->
                                  Item(SortedDescending(SourceFiles(nodes))[i])]

\* A citation block that is rendered whether or not there is a source.
CitationsAlways(nodes) ==
    <<SourcesHeader>> \o [i \in 1..Cardinality(SourceFiles(nodes)) |->
                             Item(Sorted(SourceFiles(nodes))[i])]

\* citations_markdown: empty without source files, else the header and one item
\* per file in sorted order.
Citations(nodes) ==
    IF nodes = {} \/ SourceFiles(nodes) = {} THEN <<>>
    ELSE <<SourcesHeader>> \o [i \in 1..Cardinality(SourceFiles(nodes)) |->
                                  Item(Sorted(SourceFiles(nodes))[i])]

\* A loop that puts the new fragment in front.
PrependFragment(text_so_far, text) == <<Fragment(text)>> \o text_so_far

\* full_response += text.
AppendFragment(text_so_far, text) == Append(text_so_far, Fragment(text))

\* message_placeholder.markdown(full_response + cursor) inside the loop.
WhileStreaming(text_so_far) == Append(text_so_far, Cursor)

\* A handler that keeps what was streamed when the turn fails.
KeepPartialAnswer(msgs, text_so_far) ==
    Append(msgs, [role |-> "assistant", content |-> text_so_far])

\* The history after an exception left the script: nothing handles it, so the
\* append at the end of the turn is not reached.
HistoryAfterFailure(msgs, text_so_far) == msgs

\* A run with a prompt from st.chat_input: the sidebar is drawn, the user entry
\* is appended, and query_engine.query raises or returns the streaming response.
Submit ==
    /\ Idle(ChatSession)
    /\ NumUser(messages) < MaxTurns
    /\ GetStoredFiles(cache, store)
    /\ received' = <<>>
    /\ full_response' = <<>>
    /\ placeholder' = <<>>
    /\ final_output' = <<>>
    /\ \/ /\ source_nodes' \in Retrieve(store)
          /\ messages' = Append(messages, UserEntry)
          /\ phase' = "awaiting_answer"
          /\ outcome' = "streaming"
       \/ /\ source_nodes' = {}
          /\ messages' = HistoryAfterFailure(Append(messages, UserEntry), <<>>)
          /\ phase' = "idle"
          /\ outcome' = "error"
    /\ op' = "Submit"
    /\ report' = NoReport
    /\ ingestResult' = NoIngest
    /\ UNCHANGED <<store, nextId, pending>>

\* response_gen yields one more fragment.
StreamFragment(text) ==
    /\ phase = "awaiting_answer"
    /\ Len(received) < MaxFrags
    /\ received' = Append(received, text)
    /\ full_response' = AppendFragment(full_response, text)
    /\ placeholder' = WhileStreaming(full_response')
    /\ op' = "StreamFragment"
    /\ fetched' = "none"
    /\ report' = NoReport
    /\ ingestResult' = NoIngest
    /\ UNCHANGED <<store, nextId, cache, stored_files, pending>>
    /\ UNCHANGED <<messages, phase, outcome, source_nodes, final_output>>

\* response_gen raises (the model or the connection fails mid-stream).
StreamRaises ==
    /\ phase = "awaiting_answer"
    /\ messages' = HistoryAfterFailure(messages, full_response)
    /\ phase' = "idle"
    /\ outcome' = "error"
    /\ op' = "StreamRaises"
    /\ fetched' = "none"
    /\ report' = NoReport
    /\ ingestResult' = NoIngest
    /\ UNCHANGED <<store, nextId, cache, stored_files, pending>>
    /\ UNCHANGED <<source_nodes, received, full_response, placeholder, final_output>>

\* response_gen is exhausted: citations, final output, the assistant entry.
StreamCompletes ==
    /\ phase = "awaiting_answer"
    /\ final_output' = full_response \o Citations(source_nodes)
    /\ placeholder' = final_output'
    /\ messages' = Append(messages, [role |-> "assistant", content |-> final_output'])
    /\ phase' = "idle"
    /\ outcome' = "answered"
    /\ op' = "StreamCompletes"
    /\ fetched' = "none"
    /\ report' = NoReport
    /\ ingestResult' = NoIngest
    /\ UNCHANGED <<store, nextId, cache, stored_files, pending>>
    /\ UNCHANGED <<source_nodes, received, full_response>>

\* A widget event arrives while the answer streams (st.chat_input and the sidebar
\* stay enabled): Streamlit stops the running script, and the rest of the turn
\* never runs.
Interrupt ==
    /\ phase = "awaiting_answer"
    /\ phase' = "idle"
    /\ outcome' = "interrupted"
    /\ op' = "Interrupt"
    /\ fetched' = "none"
    /\ report' = NoReport
    /\ ingestResult' = NoIngest
    /\ UNCHANGED <<store, nextId, cache, stored_files, pending>>
    /\ UNCHANGED <<messages, source_nodes, received, full_response, placeholder,
                   final_output>>

Next ==
    \/ \E s \in Sessions : Rerun(s)
    \/ CacheExpires
    \/ \E s \in Sessions, name \in FileNames, text \in Texts : AddFile(s, name, text)
    \/ \E s \in Sessions : DeleteBegin(s)
    \/ \E s \in Sessions : DeleteFinish(s)
    \/ \E path \in Paths, docs \in Directories, dbUp \in BOOLEAN : IngestData(path, docs, dbUp)

Spec == Init /\ [][Next]_vars

\* ------------------------------------------------------ the chat session
\* Stores the uploads of the sidebar leave behind.
RECURSIVE Uploaded(_)
Uploaded(docs) ==
    IF docs = {} THEN {}
    ELSE LET d == CHOOSE x \in docs : TRUE
         IN InsertDocument(Uploaded(docs \ {d}), d.name, d.text)

\* Files uploaded before the chat: "b" of one chunk, "ab" of one or of two.
ChatDocs ==
    {[name |-> <<2>>, text |-> 1], [name |-> <<1, 2>>, text |-> 1],
     [name |-> <<1, 2>>, text |-> 2]}

\* The chat is followed from a page on which some files have been uploaded and
\* the listing cache has run out.
ChatInit ==
    /\ \E docs \in SUBSET ChatDocs : store = Uploaded(docs)
    /\ nextId = 1
    /\ cache = NoCache
    /\ stored_files = <<>>
    /\ fetched = "none"
    /\ pending = [s \in Sessions |-> NoName]
    /\ report = NoReport
    /\ ingestResult = NoIngest
    /\ op = "CacheExpires"
    /\ messages = <<Greeting>>
    /\ phase = "idle"
    /\ outcome = "none"
    /\ source_nodes = {}
    /\ received = <<>>
    /\ full_response = <<>>
    /\ placeholder = <<>>
    /\ final_output = <<>>

ChatNext ==
    \/ Submit
    \/ \E text \in Fragments : StreamFragment(text)
    \/ StreamRaises
    \/ StreamCompletes
    \/ Interrupt

ChatSpec == ChatInit /\ [][ChatNext]_vars
\* ---------------------------------------------------------------- claims
Last(seq) == seq[Len(seq)]
Pieces(texts) == [i \in 1..Len(texts) |-> Fragment(texts[i])]
IsItem(p) == p.k = "item"
IsCitationText(p) == p.k \in {"sources", "item"}
\* The file names a displayed text cites, in the order shown.
Cited(text) == [i \in 1..Len(SelectSeq(text, IsItem)) |-> SelectSeq(text, IsItem)[i].f]
Ascending(names) == \A i, j \in 1..Len(names) : i < j => StrLess(names[i], names[j])
NoDuplicates(names) == \A i, j \in 1..Len(names) : i # j => names[i] # names[j]
RetrievedNames == {n.file_name : n \in source_nodes}

\* C1: when a turn completes, the citation block after the streamed text lists
\* exactly the file names of the chunks retrieved for this question, each once,
\* in ascending order, and that text is what the history keeps.
C1_CitationsAreRetrievedNames ==
    op = "StreamCompletes" =>
        /\ Range(Cited(final_output)) = RetrievedNames
        /\ Len(Cited(final_output)) = Cardinality(RetrievedNames)
        /\ Ascending(Cited(final_output))
        /\ final_output = Pieces(received)
               \o (IF RetrievedNames = {} THEN <<>> ELSE <<SourcesHeader>>)
               \o [i \in 1..Len(Cited(final_output)) |-> Item(Cited(final_output)[i])]
        /\ Last(messages) = [role |-> "assistant", content |-> final_output]

\* C1 witness: a second turn retrieves two chunks of one file while the store
\* holds another file, which the first turn's answer cited.
C1_Witness ==
    /\ op = "StreamCompletes"
    /\ NumUser(messages) = 2
    /\ Cardinality(source_nodes) = 2
    /\ Cardinality(RetrievedNames) = 1
    /\ DistinctFileNames(store) \ RetrievedNames # {}
    /\ \E i \in 1..(Len(messages) - 1) :
          Range(Cited(messages[i].content)) \ RetrievedNames # {}

\* C2: after the Delete File action reported the deletion of a document, no
\* row carries its identifier and the listing does not contain it.
C2_DeletedIsGone ==
    (op = "DeleteFile" /\ report.kind = "delete_success") =>
        /\ RowsNamed(store, report.target) = {}
        /\ report.target \notin Range(stored_files)

\* C3: a turn that fails (the query raises, or the stream raises after some
\* fragments) ends in the error state with the user entry as the last entry of
\* the history: no assistant entry is appended.
C3_FailureAppendsNoAnswer ==
    (op = "StreamRaises" \/ (op = "Submit" /\ phase = "idle")) =>
        /\ outcome = "error"
        /\ Last(messages) = UserEntry
        /\ \A i \in 2..Len(messages) :
              messages[i].role = "assistant" => messages[i - 1].role = "user"

\* C3 witness: the stream raised after fragments had been shown.
C3_Witness == op = "StreamRaises" /\ Len(received) > 0 /\ placeholder # <<>>

\* C4: in every idle state each user entry is immediately followed by an
\* assistant entry.
C4_EveryUserEntryIsAnswered ==
    phase = "idle" =>
        \A i \in 1..Len(messages) :
            messages[i].role = "user" =>
                i < Len(messages) /\ messages[i + 1].role = "assistant"

\* C5: a completed turn that retrieved no chunk shows and keeps the streamed
\* text alone, with no separator, header or list marker.
C5_NoChunksNoCitationBlock ==
    (op = "StreamCompletes" /\ source_nodes = {}) =>
        /\ final_output = Pieces(received)
        /\ placeholder = Pieces(received)
        /\ Last(messages) = [role |-> "assistant", content |-> Pieces(received)]

\* C5 witness: a turn on an empty store completed after two fragments.
C5_Witness ==
    op = "StreamCompletes" /\ store = {} /\ source_nodes = {} /\ Len(received) = 2

\* C6 as stated: while the stream has not completed, what is shown is the
\* concatenation of the fragments received so far, without citation text.
C6_ShownIsFragmentsSoFar ==
    phase = "awaiting_answer" =>
        /\ placeholder = Pieces(received)
        /\ \A i \in 1..Len(placeholder) : ~IsCitationText(placeholder[i])

\* C6 amended: while the stream has not completed, what is shown is nothing or
\* the fragments received so far, in arrival order, followed by the cursor mark,
\* without citation text; once it has completed, the fragments are followed by
\* citation text only.
C6_ShownIsFragmentsThenCursor ==
    /\ phase = "awaiting_answer" =>
          /\ placeholder = (IF received = <<>> THEN <<>> ELSE Append(Pieces(received), Cursor))
          /\ \A i \in 1..Len(placeholder) : ~IsCitationText(placeholder[i])
    /\ op = "StreamCompletes" =>
          /\ Len(placeholder) >= Len(received)
          /\ SubSeq(placeholder, 1, Len(received)) = Pieces(received)
          /\ \A i \in (Len(received) + 1)..Len(placeholder) : IsCitationText(placeholder[i])

\* C6 witness: two different fragments have arrived for a question that
\* retrieved chunks, and the stream is still open.
C6_Witness ==
    /\ phase = "awaiting_answer"
    /\ Len(received) = 2
    /\ received[1] # received[2]
    /\ source_nodes # {}

\* C7: a Delete File step leaves the rows of every other identifier as they were.
C7_DeleteLeavesOthers ==
    [][op' = "DeleteFile" =>
          \A E \in FileNames \ {report'.target} : RowsNamed(store', E) = RowsNamed(store, E)]_vars

\* C7 witness: a delete removed rows while the store keeps rows of another
\* identifier with the same text.
C7_Witness ==
    /\ op = "DeleteFile"
    /\ report.removed # {}
    /\ \E d \in report.removed, r \in store :
          r.file_name # report.target /\ r.text = d.text /\ r.idx = d.idx

\* C8: a delete whose identifier no row carried at the time of the call is
\* reported as not found.
C8_MissingIsNotFound ==
    (op = "DeleteFile" /\ report.named = 0 /\ report.kind # "delete_error") =>
        report.kind = "delete_not_found"

C10_ListingIsSorted ==
    fetched = "query" =>
        /\ NoDuplicates(stored_files)
        /\ Range(stored_files) = DistinctFileNames(store)
        /\ Ascending(stored_files)

\* C10 amended: no listing holds an identifier twice, and a listing computed
\* from the store holds exactly its distinct identifiers (in the order the
\* database returned them).
C10_ListingIsDistinct ==
    /\ NoDuplicates(stored_files)
    /\ fetched = "query" => Range(stored_files) = DistinctFileNames(store)

\* C10 witness: a listing of two identifiers was computed from a store in which
\* one identifier has several rows.
C10_Witness ==
    /\ fetched = "query"
    /\ Len(stored_files) = 2
    /\ \E name \in FileNames : Cardinality(RowsNamed(store, name)) > 1
====
